---- MODULE Spec2Model ----
(***************************************************************************)
(* Model of joss/temp/temp.py: the script that loads the arrays A, A_min   *)
(* and A_rec from the npz directory, draws the sparsity pattern of each    *)
(* with pyplot's spy and saves it as <name>.png in the graphics directory. *)
(*                                                                         *)
(* The state is the two directories, pyplot's list of open figures, the    *)
(* script's variables and the position of control inside the for loop.     *)
(* Every statement of the loop body is one action; line 12 holds two calls *)
(* (np.load, then sp.csc_array), each of which can raise, so it is two     *)
(* actions.  An uncaught exception ends the process: pc = "aborted".       *)
(***************************************************************************)
EXTENDS FiniteSets, Integers, Sequences, TLC

VARIABLES
    src,        \* the source directory: file name -> content
    dst,        \* the destination directory: file name -> content
    writable,   \* whether savefig can write the file (per file name)
    i,          \* index in Names of the name the loop is at
    pc,         \* the statement about to run
    loaded,     \* the value np.load returned, until csc_array consumed it
    mat,        \* the script's variable mat
    figs,       \* pyplot's open figures, the current figure last
    err,        \* the exception that ended the process
    events,     \* history: the calls made in this run, in order
    src0,       \* history: the source directory when the script started
    dst0        \* history: the destination directory when the script started

vars == <<src, dst, writable, i, pc, loaded, mat, figs, err, events,
          src0, dst0>>

----------------------------------------------------------------------------
(* Bounds of the model.                                                    *)

\* The arrays of the source directory hold at most MaxNnz entries other than
\* 0.0 altogether.
MaxNnz == 2

----------------------------------------------------------------------------
(* Floating-point values: a finite number or NaN.                          *)

Num(n) == [nan |-> FALSE, n |-> n]
NaN == [nan |-> TRUE, n |-> 0]
Zero == Num(0)
Vals == {Zero, Num(1), Num(-1), NaN}

\* numpy's truth value of a float, as ndarray.nonzero() uses it: everything
\* but 0.0 is non-zero, NaN included.
np_nonzero(v) == v.nan \/ v.n # 0

\* Variant of np_abs: the value itself (the absolute value is not taken).
np_abs_omitted(v) == v

\* np.abs of a float; the absolute value of NaN is NaN.
np_abs(v) == IF v.nan THEN v ELSE Num(IF v.n < 0 THEN -v.n ELSE v.n)

\* v > p for a float v and a finite p; every comparison with NaN is False.
np_greater(v, p) == ~v.nan /\ v.n > p

----------------------------------------------------------------------------
(* Names and paths.                                                        *)

Names == <<"A", "A_min", "A_rec">>

NameIdx == 1..Len(Names)

\* SRC_DIR / f"{name}.npz"
SrcPath(name) == name \o ".npz"

\* DST_DIR / f"{name}.png"
DstPath(name) == name \o ".png"

SrcFiles == {SrcPath(Names[k]) : k \in NameIdx}

\* The destination directory also holds a file the script does not name.
OtherFile == "README.md"
OutFiles == {DstPath(Names[k]) : k \in NameIdx}
DstFiles == OutFiles \cup {OtherFile}

----------------------------------------------------------------------------
(* What a source file can hold.                                            *)

\* Every matrix on disk has the same shape (rows, columns); the model fixes it.
Shape == <<2, 2>>
NumRows == Shape[1]
NumCols == Shape[2]

Rows == 0..(NumRows - 1)
Cols == 0..(NumCols - 1)
Cells == Rows \X Cols

\* The number of entries of a dense array other than 0.0.
CountNonzero(a) == Cardinality({x \in Cells : a[x] # Zero})

\* A two-dimensional dense array, as np.load returns it from an .npy stream.
DenseArrays == {a \in [Cells -> Vals] : CountNonzero(a) <= MaxNnz}

\* missing:  no such file                    (np.load raises FileNotFoundError)
\* corrupt:  not an .npy/.npz stream         (np.load raises)
\* array3d:  an array of three dimensions    (np.load returns it, csc_array raises)
\* array2d:  a matrix
FileContents ==
    {[kind |-> k] : k \in {"missing", "corrupt", "array3d"}}
        \cup {[kind |-> "array2d", a |-> a] : a \in DenseArrays}

\* The entries other than 0.0 that a file holds.
FileNnz(f) == IF f.kind = "array2d" THEN CountNonzero(f.a) ELSE 0

\* The contents with at most k entries other than 0.0.
ContentsWithin(k) == {f \in FileContents : FileNnz(f) <= k}

NoFile == [kind |-> "absent"]
\* The content of the file the script does not name.
OtherContent == [kind |-> "text"]

None == [kind |-> "None"]

----------------------------------------------------------------------------
(* sp.csc_array of a dense array.                                          *)

\* The coordinates of column c that hold a non-zero value, rows ascending,
\* from row r on.
RECURSIVE ColumnEntries(_, _, _)
ColumnEntries(a, c, r) ==
    IF r >= NumRows THEN <<>>
    ELSE (IF np_nonzero(a[<<r, c>>]) THEN <<(<<r, c>>)>> ELSE <<>>)
             \o ColumnEntries(a, c, r + 1)

\* The same for the columns from c on, column after column.
RECURSIVE ColumnMajor(_, _)
ColumnMajor(a, c) ==
    IF c >= NumCols THEN <<>>
    ELSE ColumnEntries(a, c, 0) \o ColumnMajor(a, c + 1)

\* The compressed-column form: the values of the non-zero entries column by
\* column, their row indices, and for each column the offset of its first
\* entry (indptr[c + 1] is the offset of column c; one more entry closes the
\* last column).  Entries equal to 0.0 are not stored.
csc_array(a) ==
    LET e == ColumnMajor(a, 0) IN
    [shape   |-> <<NumRows, NumCols>>,
     data    |-> [k \in 1..Len(e) |-> a[e[k]]],
     indices |-> [k \in 1..Len(e) |-> e[k][1]],
     indptr  |-> [c \in 1..(NumCols + 1) |->
                    Cardinality({k \in 1..Len(e) : e[k][2] < c - 1})]]

\* Z.tocoo(): one (row, col, value) triple per stored entry, in storage order.
tocoo(Z) ==
    [row  |-> Z.indices,
     col  |-> [k \in 1..Len(Z.data) |->
                 CHOOSE c \in Cols : Z.indptr[c + 1] < k /\ k <= Z.indptr[c + 2]],
     data |-> Z.data]

----------------------------------------------------------------------------
(* pyplot.                                                                 *)

\* plt.figure(figsize=(6, 6), edgecolor="black", linewidth=2)
NewFigure ==
    [figsize |-> <<6, 6>>, edgecolor |-> "black", linewidth |-> 2,
     axis |-> "on", lines |-> <<>>]

\* The indices from k on of the stored entries whose absolute value exceeds
\* the precision.
RECURSIVE AbovePrecision(_, _, _)
AbovePrecision(data, precision, k) ==
    IF k > Len(data) THEN <<>>
    ELSE (IF np_greater(np_abs(data[k]), precision) THEN <<k>> ELSE <<>>)
             \o AbovePrecision(data, precision, k + 1)

\* Axes.spy for a sparse Z with a marker size given: a Line2D of square
\* markers with x the column and y the row of every stored entry whose
\* absolute value exceeds the precision; the axes span the shape of Z.
spy(Z, precision, ms, c) ==
    LET coo  == tocoo(Z)
        keep == AbovePrecision(coo.data, precision, 1)
    IN  [x |-> [k \in 1..Len(keep) |-> coo.col[keep[k]]],
         y |-> [k \in 1..Len(keep) |-> coo.row[keep[k]]],
         marker |-> "s", ms |-> ms, c |-> c, extent |-> Z.shape]

\* The pixels a figure's lines mark, as (x, y) positions.
Marks(fig) ==
    UNION {{<<fig.lines[l].x[k], fig.lines[l].y[k]>> : k \in 1..Len(fig.lines[l].x)}
              : l \in 1..Len(fig.lines)}

\* The picture savefig writes for a figure: the marked positions and the
\* styling the script's own arguments fix.  This is the picture, not the
\* bytes of the file: what the encoder adds (the Software text chunk with
\* matplotlib's version) and what the ambient rcParams decide (face colour,
\* padding) are not part of it, so nothing written here says whether two
\* runs of the script produce the same bytes.
Png(fig, dpi, bbox_inches) ==
    [kind |-> "png", marks |-> Marks(fig),
     style |-> [figsize |-> fig.figsize, edgecolor |-> fig.edgecolor,
                linewidth |-> fig.linewidth, axis |-> fig.axis,
                lines |-> [l \in 1..Len(fig.lines) |->
                             [marker |-> fig.lines[l].marker, ms |-> fig.lines[l].ms,
                              c |-> fig.lines[l].c, extent |-> fig.lines[l].extent]],
                dpi |-> dpi, bbox_inches |-> bbox_inches]]

\* The current figure.
gcf == figs[Len(figs)]

\* figs with the current figure replaced by f.
SetCurrent(f) == [figs EXCEPT ![Len(figs)] = f]

----------------------------------------------------------------------------
(* The script.                                                             *)

\* Variant of name: the names are taken last to first.
NameReversed == Names[Len(Names) + 1 - i]

\* Line 11: the loop variable.
name == Names[i]

\* A history entry: the call made, for which name, whether it returned
\* (ok) or raised, and the file content it wrote (NoFile if none).
Event(op, ok, out) == [op |-> op, name |-> name, ok |-> ok, out |-> out]

\* An uncaught exception: the interpreter prints the traceback and exits.
Raise(e) ==
    /\ err' = e
    /\ pc' = "aborted"

Init ==
    /\ \E a \in ContentsWithin(MaxNnz) :
       \E b \in ContentsWithin(MaxNnz - FileNnz(a)) :
       \E c \in ContentsWithin(MaxNnz - FileNnz(a) - FileNnz(b)) :
          src = (SrcPath(Names[1]) :> a) @@ (SrcPath(Names[2]) :> b)
                    @@ (SrcPath(Names[3]) :> c)
    /\ dst = [p \in DstFiles |-> IF p = OtherFile THEN OtherContent ELSE NoFile]
    /\ writable \in [OutFiles -> BOOLEAN]
    /\ i = 1
    /\ pc = "load"
    /\ loaded = None
    /\ mat = None
    /\ figs = <<>>
    /\ err = "none"
    /\ events = <<>>
    /\ src0 = src
    /\ dst0 = dst

\* Variant of Load: a missing file is read as the zero matrix.
LoadMissingAsZero ==
    /\ pc = "load"
    /\ LET f == src[SrcPath(name)] IN
         CASE f.kind = "missing" ->
                /\ loaded' = [kind |-> "array2d", a |-> [x \in Cells |-> Zero]]
                /\ pc' = "convert"
                /\ UNCHANGED err
           [] f.kind = "corrupt" ->
                /\ Raise("DecodeError")
                /\ UNCHANGED loaded
           [] OTHER ->
                /\ loaded' = f
                /\ pc' = "convert"
                /\ UNCHANGED err
    /\ events' = Append(events, Event("load", pc' # "aborted", NoFile))
    /\ UNCHANGED <<src, dst, writable, i, mat, figs, src0, dst0>>

\* Line 12, inner call: np.load(SRC_DIR / f"{name}.npz")
Load ==
    /\ pc = "load"
    /\ LET f == src[SrcPath(name)] IN
         CASE f.kind = "missing" ->
                /\ Raise("MissingInputError")
                /\ UNCHANGED loaded
           [] f.kind = "corrupt" ->
                /\ Raise("DecodeError")
                /\ UNCHANGED loaded
           [] OTHER ->
                /\ loaded' = f
                /\ pc' = "convert"
                /\ UNCHANGED err
    /\ events' = Append(events, Event("load", pc' # "aborted", NoFile))
    /\ UNCHANGED <<src, dst, writable, i, mat, figs, src0, dst0>>

\* Variant of Convert: a matrix converted for an earlier name is kept.
ConvertCached ==
    /\ pc = "convert"
    /\ IF loaded.kind = "array2d"
       THEN /\ mat' = IF mat = None THEN csc_array(loaded.a) ELSE mat
            /\ pc' = "figure"
            /\ UNCHANGED err
       ELSE /\ Raise("DecodeError")
            /\ UNCHANGED mat
    /\ loaded' = None
    /\ events' = Append(events, Event("convert", pc' # "aborted", NoFile))
    /\ UNCHANGED <<src, dst, writable, i, figs, src0, dst0>>

\* Line 12, outer call and assignment: mat = sp.csc_array(...)
Convert ==
    /\ pc = "convert"
    /\ IF loaded.kind = "array2d"
       THEN /\ mat' = csc_array(loaded.a)
            /\ pc' = "figure"
            /\ UNCHANGED err
       ELSE /\ Raise("DecodeError")
            /\ UNCHANGED mat
    /\ loaded' = None
    /\ events' = Append(events, Event("convert", pc' # "aborted", NoFile))
    /\ UNCHANGED <<src, dst, writable, i, figs, src0, dst0>>

\* Line 13: plt.figure(figsize=(6, 6), edgecolor="black", linewidth=2)
Figure ==
    /\ pc = "figure"
    /\ figs' = Append(figs, NewFigure)
    /\ pc' = "spy"
    /\ events' = Append(events, Event("figure", TRUE, NoFile))
    /\ UNCHANGED <<src, dst, writable, i, loaded, mat, err, src0, dst0>>

\* Line 14: plt.spy(mat, precision=0, ms=4, c="black")
Spy ==
    /\ pc = "spy"
    /\ figs' = SetCurrent([gcf EXCEPT !.lines = Append(@, spy(mat, 0, 4, "black"))])
    /\ pc' = "axis"
    /\ events' = Append(events, Event("spy", TRUE, NoFile))
    /\ UNCHANGED <<src, dst, writable, i, loaded, mat, err, src0, dst0>>

\* Line 15: plt.axis("off")
AxisOff ==
    /\ pc = "axis"
    /\ figs' = SetCurrent([gcf EXCEPT !.axis = "off"])
    /\ pc' = "savefig"
    /\ events' = Append(events, Event("axis", TRUE, NoFile))
    /\ UNCHANGED <<src, dst, writable, i, loaded, mat, err, src0, dst0>>

\* Variant of Savefig: the exception is swallowed and the loop goes on.
SavefigSwallows ==
    /\ pc = "savefig"
    /\ IF writable[DstPath(name)]
       THEN dst' = [dst EXCEPT ![DstPath(name)] = Png(gcf, 300, "tight")]
       ELSE UNCHANGED dst
    /\ pc' = "close"
    /\ events' = Append(events, Event("savefig", writable[DstPath(name)],
                                      IF writable[DstPath(name)]
                                      THEN dst'[DstPath(name)] ELSE NoFile))
    /\ UNCHANGED <<src, writable, i, loaded, mat, figs, err, src0, dst0>>

\* Variant of Savefig: the other file of the directory is rewritten as well.
SavefigTouchesOther ==
    /\ pc = "savefig"
    /\ IF writable[DstPath(name)]
       THEN /\ dst' = [dst EXCEPT ![DstPath(name)] = Png(gcf, 300, "tight"),
                                  ![OtherFile] = NoFile]
            /\ pc' = "close"
            /\ UNCHANGED err
       ELSE /\ Raise("IOError")
            /\ UNCHANGED dst
    /\ events' = Append(events, Event("savefig", pc' # "aborted",
                                      IF pc' # "aborted" THEN dst'[DstPath(name)]
                                      ELSE NoFile))
    /\ UNCHANGED <<src, writable, i, loaded, mat, figs, src0, dst0>>

\* Variant of Savefig: the figure is closed before the exception leaves.
SavefigClosesOnError ==
    /\ pc = "savefig"
    /\ IF writable[DstPath(name)]
       THEN /\ dst' = [dst EXCEPT ![DstPath(name)] = Png(gcf, 300, "tight")]
            /\ pc' = "close"
            /\ UNCHANGED <<err, figs>>
       ELSE /\ Raise("IOError")
            /\ figs' = SubSeq(figs, 1, Len(figs) - 1)
            /\ UNCHANGED dst
    /\ events' = Append(events, Event("savefig", pc' # "aborted",
                                      IF pc' # "aborted" THEN dst'[DstPath(name)]
                                      ELSE NoFile))
    /\ UNCHANGED <<src, writable, i, loaded, mat, src0, dst0>>

\* Line 16: plt.savefig(DST_DIR / f"{name}.png", dpi=300, bbox_inches="tight")
Savefig ==
    /\ pc = "savefig"
    /\ IF writable[DstPath(name)]
       THEN /\ dst' = [dst EXCEPT ![DstPath(name)] = Png(gcf, 300, "tight")]
            /\ pc' = "close"
            /\ UNCHANGED err
       ELSE /\ Raise("IOError")
            /\ UNCHANGED dst
    /\ events' = Append(events, Event("savefig", pc' # "aborted",
                                      IF pc' # "aborted" THEN dst'[DstPath(name)]
                                      ELSE NoFile))
    /\ UNCHANGED <<src, writable, i, loaded, mat, figs, src0, dst0>>

\* Variant of Close: the loop ends one name early.
CloseEndsEarly ==
    /\ pc = "close"
    /\ figs' = SubSeq(figs, 1, Len(figs) - 1)
    /\ IF i < Len(Names) - 1
       THEN /\ i' = i + 1
            /\ pc' = "load"
       ELSE /\ i' = i
            /\ pc' = "done"
    /\ events' = Append(events, Event("close", TRUE, NoFile))
    /\ UNCHANGED <<src, dst, writable, loaded, mat, err, src0, dst0>>

\* Variant of Close: the figure is left open.
CloseKeepsFigure ==
    /\ pc = "close"
    /\ UNCHANGED figs
    /\ IF i < Len(Names)
       THEN /\ i' = i + 1
            /\ pc' = "load"
       ELSE /\ i' = i
            /\ pc' = "done"
    /\ events' = Append(events, Event("close", TRUE, NoFile))
    /\ UNCHANGED <<src, dst, writable, loaded, mat, err, src0, dst0>>

\* Line 17: plt.close(), then the for statement takes the next name or ends.
Close ==
    /\ pc = "close"
    /\ figs' = SubSeq(figs, 1, Len(figs) - 1)
    /\ IF i < Len(Names)
       THEN /\ i' = i + 1
            /\ pc' = "load"
       ELSE /\ i' = i
            /\ pc' = "done"
    /\ events' = Append(events, Event("close", TRUE, NoFile))
    /\ UNCHANGED <<src, dst, writable, loaded, mat, err, src0, dst0>>

Finished == pc \in {"done", "aborted"}

Next ==
    \/ Load
    \/ Convert
    \/ Figure
    \/ Spy
    \/ AxisOff
    \/ Savefig
    \/ Close

Spec == Init /\ [][Next]_vars

----------------------------------------------------------------------------
(* Vocabulary of the properties.                                           *)

\* The calls of one iteration, in the order of lines 12 to 17.
Cycle == <<"load", "convert", "figure", "spy", "axis", "savefig", "close">>

EventIdx == 1..Len(events)

\* The files this run has written.
Written ==
    {DstPath(events[k].name) : k \in {j \in EventIdx :
                                        events[j].op = "savefig" /\ events[j].ok}}

\* The position in Names of a name.
IndexOf(n) == CHOOSE k \in NameIdx : Names[k] = n

\* The names whose iteration has got past savefig in this run.
Saved == {k \in NameIdx : k < i \/ (k = i /\ pc \in {"close", "done"})}

AllValid == \A p \in SrcFiles : src[p].kind = "array2d"
AllWritable == \A p \in OutFiles : writable[p]
NoneWritable == \A p \in OutFiles : ~writable[p]

\* The (row, column) coordinates an image marks: a mark at (x, y) stands for
\* row y, column x.
MarkedCoords(img) == {<<m[2], m[1]>> : m \in img.marks}

----------------------------------------------------------------------------
(* C1 to C4: the files a run produces, and what an error does to it.       *)

\* C1: when every source file is a matrix and every output file can be
\* written, the run ends without an exception, it has written as many files
\* as there are names, and <name>.png is in the destination directory for
\* every name.
OneFilePerName ==
    (AllValid /\ AllWritable /\ Finished) =>
        /\ pc = "done"
        /\ Cardinality(Written) = Len(Names)
        /\ \A k \in NameIdx :
              /\ DstPath(Names[k]) \in Written
              /\ dst[DstPath(Names[k])].kind = "png"

OneFilePerNameWitness ==
    /\ AllValid
    /\ AllWritable
    /\ pc = "done"

\* C2: once np.load has been called for a name whose source file is missing,
\* the run has aborted with MissingInputError, nothing has been drawn or
\* written for that name, and the file of every earlier name is on disk as
\* this run wrote it.
MissingInputAborts ==
    (src[SrcPath(name)].kind = "missing" /\ pc # "load") =>
        /\ pc = "aborted"
        /\ err = "MissingInputError"
        /\ \A k \in EventIdx : events[k].name = name => events[k].op = "load"
        /\ DstPath(name) \notin Written
        /\ dst[DstPath(name)] = dst0[DstPath(name)]
        /\ \A j \in 1..(i - 1) :
              /\ DstPath(Names[j]) \in Written
              /\ dst[DstPath(Names[j])].kind = "png"

MissingInputAbortsWitness ==
    /\ src[SrcPath(name)].kind = "missing"
    /\ pc = "aborted"
    /\ i = Len(Names)

\* C3: a call that raises is the last call of the run: nothing runs after
\* it, for this name or a later one, no call is made twice for a name, and
\* the file of every earlier name still holds what savefig wrote to it.
FirstErrorEndsRun ==
    /\ \A k \in EventIdx : ~events[k].ok => (k = Len(events) /\ pc = "aborted")
    /\ pc = "aborted" =>
          /\ err \in {"MissingInputError", "DecodeError", "IOError"}
          /\ events # <<>>
          /\ ~events[Len(events)].ok
          /\ events[Len(events)].name = name
          /\ \A k \in EventIdx : IndexOf(events[k].name) <= i
          /\ \A k, l \in EventIdx :
                (events[k].op = events[l].op /\ events[k].name = events[l].name)
                    => k = l
          /\ \A k \in EventIdx :
                (events[k].op = "savefig" /\ events[k].ok)
                    => dst[DstPath(events[k].name)] = events[k].out
          /\ \A j \in 1..(i - 1) : DstPath(Names[j]) \in Written

FirstErrorEndsRunWitness ==
    /\ pc = "aborted"
    /\ err = "IOError"
    /\ i = 2
    /\ dst[DstPath(Names[1])].kind = "png"

\* C4: the calls of a run are the cycle load, convert, figure, spy, axis,
\* savefig, close for the first name, then the same cycle for the second
\* name, and so on in the order of Names: the cycle of a name is complete
\* before the load of the next, and the files are written in that order.
StrictNameOrder ==
    \A k \in EventIdx :
        /\ ((k - 1) \div Len(Cycle)) + 1 \in NameIdx
        /\ events[k].name = Names[((k - 1) \div Len(Cycle)) + 1]
        /\ events[k].op = Cycle[((k - 1) % Len(Cycle)) + 1]

StrictNameOrderWitness ==
    /\ pc = "done"
    /\ Len(events) = Len(Names) * Len(Cycle)
    /\ Written = OutFiles

----------------------------------------------------------------------------
(* C5: what an image shows.                                                *)

\* The coordinates of a dense array that hold a value other than 0.0.
NonzeroCoords(a) == {x \in Cells : a[x] # Zero}

\* The coordinates of a dense array that hold a number other than 0.0.
NonzeroNumberCoords(a) == {x \in Cells : ~a[x].nan /\ a[x].n # 0}

\* C5 as stated: the image written for a name marks exactly the coordinates
\* at which the matrix of that name holds a non-zero value; for a matrix
\* without non-zero values the file is written and marks nothing.
MarksAreNonzeroCoords ==
    \A k \in NameIdx :
        DstPath(Names[k]) \in Written =>
            LET a   == src[SrcPath(Names[k])].a
                img == dst[DstPath(Names[k])]
            IN  /\ img.kind = "png"
                /\ MarkedCoords(img) = NonzeroCoords(a)
                /\ NonzeroCoords(a) = {} => img.marks = {}

\* C5 as the code has it: the image written for a name marks exactly the
\* coordinates at which the matrix of that name holds a number other than
\* zero; a coordinate that holds 0.0 or NaN is not marked; for a matrix
\* without such numbers the file is written and marks nothing.
MarksAreNonzeroNumberCoords ==
    \A k \in NameIdx :
        DstPath(Names[k]) \in Written =>
            LET a   == src[SrcPath(Names[k])].a
                img == dst[DstPath(Names[k])]
            IN  /\ img.kind = "png"
                /\ MarkedCoords(img) = NonzeroNumberCoords(a)
                /\ NonzeroNumberCoords(a) = {} => img.marks = {}

\* An image with a mark, written for a matrix that also holds a NaN, and an
\* image without marks written for the zero matrix.
MarksAreNonzeroNumberCoordsWitness ==
    /\ pc = "done"
    /\ \E k \in NameIdx :
          /\ dst[DstPath(Names[k])].marks # {}
          /\ \E x \in Cells : src[SrcPath(Names[k])].a[x] = NaN
    /\ \E k \in NameIdx :
          /\ NonzeroCoords(src[SrcPath(Names[k])].a) = {}
          /\ dst[DstPath(Names[k])].kind = "png"
          /\ dst[DstPath(Names[k])].marks = {}

----------------------------------------------------------------------------
(* C6, C8 to C10: effects, figures, the order inside a cycle.              *)

\* C6: the source directory is as it was; the destination directory holds
\* the same file names as before; the files this run has written are the
\* <name>.png of the names that got past savefig, each written once; every
\* other file of the destination directory is as it was.
OnlyOutputFilesChange ==
    /\ src = src0
    /\ DOMAIN dst = DOMAIN dst0
    /\ Written = {DstPath(Names[k]) : k \in Saved}
    /\ Cardinality({k \in EventIdx : events[k].op = "savefig" /\ events[k].ok})
          = Cardinality(Saved)
    /\ \A p \in DstFiles \ Written : dst[p] = dst0[p]
    /\ \A p \in Written : dst[p].kind = "png"

OnlyOutputFilesChangeWitness ==
    /\ pc = "aborted"
    /\ Cardinality(Written) = 2
    /\ dst[OtherFile] = OtherContent
    /\ dst[DstPath(Names[3])] = NoFile

\* C8: at most one figure is open at any moment; none is open when an
\* iteration starts, and none when the loop has ended.
FiguresAreReleased ==
    /\ Len(figs) <= 1
    /\ pc \in {"load", "done"} => figs = <<>>

FiguresAreReleasedWitness ==
    /\ pc = "load"
    /\ i = Len(Names)
    /\ figs = <<>>

\* C9: from the figure call to the close call of a name, mat is the
\* compressed-column form of the array in that name's source file; a
\* savefig call comes right after the load, convert, figure, spy and axis
\* calls of the same name, in this order; and the file it writes is the
\* rendering of that name's own array.
CycleRendersOwnMatrix ==
    /\ pc \in {"figure", "spy", "axis", "savefig", "close"} =>
          /\ src[SrcPath(name)].kind = "array2d"
          /\ mat = csc_array(src[SrcPath(name)].a)
    /\ \A k \in EventIdx :
          events[k].op = "savefig" =>
              /\ k >= Len(Cycle) - 1
              /\ \A d \in 1..(Len(Cycle) - 2) :
                    /\ events[k - d].name = events[k].name
                    /\ events[k - d].ok
                    /\ events[k - d].op = Cycle[Len(Cycle) - 1 - d]
    /\ \A k \in EventIdx :
          (events[k].op = "savefig" /\ events[k].ok) =>
              LET a == src[SrcPath(events[k].name)].a
                  f == [NewFigure EXCEPT
                           !.lines = <<spy(csc_array(a), 0, 4, "black")>>,
                           !.axis = "off"]
              IN  events[k].out = Png(f, 300, "tight")

\* The second name's file is written, and its array differs from the first's.
CycleRendersOwnMatrixWitness ==
    /\ pc = "close"
    /\ i = 2
    /\ src[SrcPath(Names[1])] # src[SrcPath(Names[2])]
    /\ dst[DstPath(Names[1])].marks # dst[DstPath(Names[2])].marks

\* C10: when no output file can be written, IOError is raised by savefig
\* and by nothing earlier; the run ends at the first name and writes
\* nothing; if the first source file is a matrix the run ends with IOError
\* after the load, convert, figure, spy and axis calls, with the figure
\* still open; if it is missing the run ends with MissingInputError, and if
\* it cannot be decoded, with DecodeError.
UnwritableFailsAtSavefig ==
    NoneWritable =>
        /\ err = "IOError" =>
              /\ events[Len(events)].op = "savefig"
              /\ Len(events) = Len(Cycle) - 1
        /\ Finished =>
              /\ pc = "aborted"
              /\ i = 1
              /\ Written = {}
              /\ dst = dst0
              /\ LET f == src[SrcPath(Names[1])] IN
                    /\ f.kind = "array2d" =>
                          /\ err = "IOError"
                          /\ Len(figs) = 1
                          /\ \A k \in 1..(Len(Cycle) - 2) :
                                events[k].ok /\ events[k].op = Cycle[k]
                    /\ f.kind = "missing" => err = "MissingInputError"
                    /\ f.kind \in {"corrupt", "array3d"} => err = "DecodeError"

UnwritableFailsAtSavefigWitness ==
    /\ NoneWritable
    /\ pc = "aborted"
    /\ err = "IOError"
    /\ Len(figs) = 1

====
